---- MODULE Spec2Model ----
(***************************************************************************)
(* Model of the main loop of Nifty_Roll_Long_Strad_spot.py: the rolling    *)
(* long straddle on NIFTY.  One iteration of `while True` is a tick.  A    *)
(* tick is a chain of external calls (price reads, instrument lookups,     *)
(* Stocko orders, DB inserts); each call is one step, and each call may    *)
(* raise, which sends control to the `except Exception` handler of the     *)
(* loop.  pc names the call the loop is about to make; pc = "sleep" is the *)
(* end of a tick (time.sleep), pc = "top" the start of the next one.       *)
(***************************************************************************)
EXTENDS Integers, Sequences, FiniteSets, TLC

\* ------------------------------------------------------------------------
\* Configuration (environment defaults of the script)
\* ------------------------------------------------------------------------
STRIKE_STEP == 50
ENTRY_TOL == 4
QTY_PER_LEG == 65
PROFIT_TARGET == 1500
STOP_LOSS == 1500
ATR_PERIOD == 14

\* The clock counts half-minute slots; the market window is given in slots.
SlotsPerMinute == 2
MARKET_START_TIME == 2
MARKET_END_TIME == 4

\* Bounds of the model
MaxNow == 5
MaxRealized == 1300
MaxAtrNow == 9
MaxPeriod == 3
MaxRoundPrice == 40
MaxRoundStep == 6

\* Values the external feeds may return
Spots == {22498, 22525, 22547}
Prices == {100, 120}
FlagOutcomes == {"true", "false", "error", "norow", "nocol"}

\* The futures quote of the loop, and the samples fed to the ATR builder
\* when it is examined on its own
FutQuotes == {22510}
AtrSamples == {100, 104, 110}

None == -1
\* float("nan"): a value that no price arithmetic of the model produces
NaN == -1000000
NoSymbol == [strike |-> None, opt_type |-> "NONE"]

VARIABLES
    LIVE_MODE,          \* configuration flag, fixed for the run
    pc,                 \* the call the loop is about to make
    now,                \* wall clock of the current tick, in slots
    position_open, active_atm, ce_symbol, pe_symbol, ce_entry, pe_entry,
    realized_pnl,
    last_snapshot_min, last_flag_min, trade_allowed,
    spot, ce_exit, pe_exit, ce_ltp, pe_ltp, unreal,   \* locals of the tick
    events,             \* rows inserted by log_db during the current tick
    orders,             \* orders accepted by Stocko during the current tick
    fired,              \* transitions whose branch the current tick took
    raised,             \* call that raised in the current tick, or "none"
    flag_read,          \* outcome of the flag read of this tick, or "none"
    pre,                \* position and realized PnL when the tick began
    poll_min,           \* minute of the latest read of the trade flag
    poll_count,         \* number of reads of the trade flag in that minute
    snap_min,           \* minute of the latest SNAPSHOT row of the open position
    legs_snap_min,      \* the same, for the legs currently held
    legs_booked,        \* the PnL of the legs currently tracked has been realized
    period, trs, last_min, h, l, c, prev_c, self_atr,   \* the FutAtrBuilder
    fut, atr,           \* the sample and the value update() returned
    rs_price, rs_step, rs_strike, rs_again   \* round_to_strike on its own

posVars == <<position_open, active_atm, ce_symbol, pe_symbol, ce_entry, pe_entry>>
flagVars == <<last_flag_min, trade_allowed, flag_read, poll_min, poll_count>>
localVars == <<spot, ce_exit, pe_exit, ce_ltp, pe_ltp, unreal>>
tickVars == <<fired, raised, pre>>
snapGhost == <<snap_min, legs_snap_min>>
atrVars == <<period, trs, last_min, h, l, c, prev_c, self_atr, fut, atr>>
roundVars == <<rs_price, rs_step, rs_strike, rs_again>>
auxVars == <<snapGhost, atrVars, roundVars>>
mainVars == <<LIVE_MODE, pc, posVars, realized_pnl, legs_booked, last_snapshot_min,
              flagVars, localVars, events, orders, tickVars, snapGhost>>
vars == <<LIVE_MODE, pc, now, posVars, realized_pnl, legs_booked, last_snapshot_min,
          flagVars, localVars, events, orders, tickVars, auxVars>>

\* ------------------------------------------------------------------------
\* Pure helpers
\* ------------------------------------------------------------------------
Abs(x) == IF x < 0 THEN -x ELSE x

\* now.replace(second=0, microsecond=0)
MinuteOf(t) == t \div SlotsPerMinute

\* Variant: round(price / step) * step, which rounds a tie to the even multiple
round_to_strike_half_even(price, step) ==
    LET q == price \div step
        r == price % step
    IN  IF 2 * r < step THEN q * step
        ELSE IF 2 * r > step THEN (q + 1) * step
        ELSE IF q % 2 = 0 THEN q * step ELSE (q + 1) * step

\* int(math.floor(price / step + 0.5) * step)
round_to_strike_step(price, step) == ((2 * price + step) \div (2 * step)) * step

\* int(math.floor(price / STRIKE_STEP + 0.5) * STRIKE_STEP)
round_to_strike(price) == round_to_strike_step(price, STRIKE_STEP)

in_market_hours(t) == MARKET_START_TIME <= t /\ t <= MARKET_END_TIME

\* Variant: the exception handler of the read answers True (fail-open)
read_trade_flag_fail_open(outcome) == outcome \in {"true", "error"}

\* read_trade_flag: the column value when the row and the column are there,
\* False on a missing row, a missing column or an exception
read_trade_flag(outcome) == outcome = "true"

get_nearest_option_symbol(strike, opt_type) == [strike |-> strike, opt_type |-> opt_type]

\* (ce_exit - ce_entry + pe_exit - pe_entry) * QTY_PER_LEG
LegPnl(cx, ce, px, pe) == (cx - ce + px - pe) * QTY_PER_LEG

\* Variant: the snapshot test lets the minute of the last snapshot through again
SnapshotDue_same_minute(this_min) == last_snapshot_min = None \/ this_min >= last_snapshot_min

\* Variant: the minute test lets the minute of the last read through again
FlagPollDue_same_minute(this_min) == last_flag_min = None \/ this_min >= last_flag_min

FlagPollDue(this_min) == last_flag_min = None \/ this_min > last_flag_min

SnapshotDue(this_min) == last_snapshot_min = None \/ this_min > last_snapshot_min

atm == round_to_strike(spot)
dist == Abs(spot - atm)
new_atm == round_to_strike(spot)

KillSwitchGuard == position_open /\ ~trade_allowed

\* Variant: the entry test without the trade flag
EntryGuard_no_flag == ~position_open /\ dist <= ENTRY_TOL

\* Variant: the entry test without the tolerance
EntryGuard_no_tolerance == trade_allowed /\ ~position_open

EntryGuard == trade_allowed /\ ~position_open /\ dist <= ENTRY_TOL

\* Variant: the roll test without the comparison of the strikes
RollGuard_any_strike == trade_allowed /\ Abs(spot - new_atm) <= ENTRY_TOL

RollGuard == trade_allowed /\ new_atm # active_atm /\ Abs(spot - new_atm) <= ENTRY_TOL

FinalExitGuard(u) == u >= PROFIT_TARGET \/ u <= -STOP_LOSS

\* Variant: the reason of FINAL_EXIT is TARGET whenever the PnL is positive
FinalExitReason_sign(u) == IF u > 0 THEN "TARGET" ELSE "SL"

\* reason="TARGET" if unreal >= PROFIT_TARGET else "SL"
FinalExitReason(u) == IF u >= PROFIT_TARGET THEN "TARGET" ELSE "SL"

\* reason=f"FLAG={trade_allowed}"
SnapshotReason == IF trade_allowed THEN "FLAG=True" ELSE "FLAG=False"

Row(ev, st, why, strike, cx, px, u) ==
    [event |-> ev, status |-> st, reason |-> why, atm |-> strike,
     ce_entry |-> ce_entry, pe_entry |-> pe_entry,
     ce_exit |-> cx, pe_exit |-> px,
     unreal_pnl |-> u, realized_pnl |-> realized_pnl]

Position ==
    [position_open |-> position_open, active_atm |-> active_atm,
     ce_symbol |-> ce_symbol, pe_symbol |-> pe_symbol,
     ce_entry |-> ce_entry, pe_entry |-> pe_entry,
     realized_pnl |-> realized_pnl, trade_allowed |-> trade_allowed,
     last_snapshot_min |-> last_snapshot_min]

NoPosition ==
    [position_open |-> FALSE, active_atm |-> None,
     ce_symbol |-> NoSymbol, pe_symbol |-> NoSymbol,
     ce_entry |-> None, pe_entry |-> None,
     realized_pnl |-> 0, trade_allowed |-> FALSE,
     last_snapshot_min |-> None]

\* ------------------------------------------------------------------------
\* FutAtrBuilder.  Prices and true ranges are whole points; self.atr is kept
\* in hundredths of a point, which is what round(x, 2) leaves of it.
\* Comparisons with NaN are False, arithmetic with NaN gives NaN.
\* ------------------------------------------------------------------------
FGt(a, b) == a # NaN /\ b # NaN /\ a > b
FLt(a, b) == a # NaN /\ b # NaN /\ a < b
FSub(a, b) == IF a = NaN \/ b = NaN THEN NaN ELSE a - b
FAdd(a, b) == IF a = NaN \/ b = NaN THEN NaN ELSE a + b
FAbs(a) == IF a = NaN THEN NaN ELSE Abs(a)

\* max(a, b) and min(a, b) of Python: the first argument stays unless the
\* second compares greater (smaller)
PyMax(a, b) == IF FGt(b, a) THEN b ELSE a
PyMin(a, b) == IF FLt(b, a) THEN b ELSE a

\* sum(seq[-n:])
RECURSIVE SumLast(_, _)
SumLast(seq, n) ==
    IF n = 0 \/ seq = <<>> THEN 0
    ELSE FAdd(SumLast(SubSeq(seq, 1, Len(seq) - 1), n - 1), seq[Len(seq)])

\* round(total / n, 2), in hundredths
RoundedMean(total, n) ==
    IF total = NaN THEN NaN ELSE (200 * total + n) \div (2 * n)

\* tr = max(h - l, abs(h - prev_c), abs(l - prev_c))
TrueRange == PyMax(PyMax(FSub(h, l), FAbs(FSub(h, prev_c))), FAbs(FSub(l, prev_c)))

\* Variant: the mean of all the true ranges seen so far
AtrAfter_cumulative(all) ==
    IF Len(all) >= period THEN RoundedMean(SumLast(all, Len(all)), Len(all)) ELSE self_atr

\* if len(self.trs) >= self.period:
\*     self.atr = round(sum(self.trs[-self.period:]) / self.period, 2)
AtrAfter(all) ==
    IF Len(all) >= period THEN RoundedMean(SumLast(all, period), period) ELSE self_atr

\* FutAtrBuilder.update(now, fut_ltp), with mk the minute of now
FutAtrBuilder_update(mk, fut_ltp) ==
    /\ fut' = fut_ltp
    /\ period' = period
    /\ IF last_min = None
         THEN /\ last_min' = mk
              /\ h' = fut_ltp /\ l' = fut_ltp /\ c' = fut_ltp /\ prev_c' = fut_ltp
              /\ atr' = None
              /\ UNCHANGED <<trs, self_atr>>
         ELSE IF mk = last_min
         THEN /\ h' = PyMax(h, fut_ltp)
              /\ l' = PyMin(l, fut_ltp)
              /\ c' = fut_ltp
              /\ atr' = self_atr
              /\ UNCHANGED <<trs, self_atr, prev_c, last_min>>
         ELSE /\ trs' = Append(trs, TrueRange)
              /\ self_atr' = AtrAfter(trs')
              /\ prev_c' = c
              /\ last_min' = mk
              /\ h' = fut_ltp /\ l' = fut_ltp /\ c' = fut_ltp
              /\ atr' = self_atr'

\* FutAtrBuilder.__init__(period)
FutAtrBuilder_init(p) ==
    /\ period = p
    /\ trs = <<>>
    /\ last_min = None
    /\ h = None /\ l = None /\ c = None /\ prev_c = None
    /\ self_atr = None
    /\ fut = None
    /\ atr = None

\* round_to_strike not yet applied
RoundIdle ==
    /\ rs_price = None
    /\ rs_step = None
    /\ rs_strike = None
    /\ rs_again = None

\* ------------------------------------------------------------------------
\* Initial state: main() up to the loop
\* ------------------------------------------------------------------------
MainInit ==
    /\ LIVE_MODE \in BOOLEAN
    /\ legs_booked = FALSE
    /\ pc = "top"
    /\ snap_min = None
    /\ legs_snap_min = None
    /\ position_open = FALSE
    /\ active_atm = None
    /\ ce_symbol = NoSymbol
    /\ pe_symbol = NoSymbol
    /\ ce_entry = None
    /\ pe_entry = None
    /\ realized_pnl = 0
    /\ last_snapshot_min = None
    /\ last_flag_min = None
    /\ trade_allowed = FALSE
    /\ spot = None
    /\ ce_exit = None
    /\ pe_exit = None
    /\ ce_ltp = None
    /\ pe_ltp = None
    /\ unreal = 0
    /\ events = <<>>
    /\ orders = <<>>
    /\ fired = {}
    /\ raised = "none"
    /\ flag_read = "none"
    /\ pre = NoPosition
    /\ poll_min = None
    /\ poll_count = 0

\* atr_builder = FutAtrBuilder(ATR_PERIOD); the clock starts before the open
Init ==
    /\ MainInit
    /\ now = 1
    /\ FutAtrBuilder_init(ATR_PERIOD)
    /\ RoundIdle

\* ------------------------------------------------------------------------
\* Start of a tick: clock, market-hours test, per-minute flag check
\* ------------------------------------------------------------------------
TickStart ==
    /\ pc = "top"
    /\ Abs(realized_pnl) <= MaxRealized
    /\ \E t \in now..MaxNow, outcome \in FlagOutcomes :
        /\ now' = t
        /\ pre' = Position
        /\ IF ~in_market_hours(t)
             THEN /\ pc' = "sleep"
                  /\ UNCHANGED flagVars
             ELSE /\ pc' = "fetch_spot"
                  /\ IF FlagPollDue(MinuteOf(t))
                       THEN /\ last_flag_min' = MinuteOf(t)
                            /\ trade_allowed' = read_trade_flag(outcome)
                            /\ flag_read' = outcome
                            /\ poll_min' = MinuteOf(t)
                            /\ poll_count' = IF poll_min = MinuteOf(t)
                                                THEN poll_count + 1 ELSE 1
                       ELSE UNCHANGED flagVars
    /\ UNCHANGED <<auxVars, LIVE_MODE, posVars, realized_pnl, legs_booked, last_snapshot_min,
                   localVars, events, orders, fired, raised>>

\* spot = ltp(kite, INDEX_SYMBOL)
FetchSpot ==
    /\ pc = "fetch_spot"
    /\ \E s \in Spots : spot' = s
    /\ pc' = "fetch_fut"
    /\ UNCHANGED <<auxVars, LIVE_MODE, now, posVars, realized_pnl, legs_booked, last_snapshot_min,
                   flagVars, ce_exit, pe_exit, ce_ltp, pe_ltp, unreal,
                   events, orders, tickVars>>

\* fut = ltp(kite, FUT_SYMBOL); atr = atr_builder.update(now, fut)
FetchFut ==
    /\ pc = "fetch_fut"
    /\ \E f \in FutQuotes : FutAtrBuilder_update(MinuteOf(now), f)
    /\ pc' = "fetch_vix"
    /\ UNCHANGED <<snapGhost, roundVars, LIVE_MODE, now, posVars, realized_pnl, legs_booked, last_snapshot_min,
                   flagVars, localVars, events, orders, tickVars>>

\* Where the tick goes after the data fetch: kill switch, entry, position
\* management, or nothing to do
DispatchPc ==
    IF KillSwitchGuard THEN "ks_ce_exit"
    ELSE IF EntryGuard THEN "en_ce_sym"
    ELSE IF position_open THEN "pm_ce_ltp"
    ELSE "sleep"

DispatchFired ==
    IF KillSwitchGuard THEN {"KILL_SWITCH_EXIT"}
    ELSE IF EntryGuard THEN {"ENTRY"}
    ELSE {}

\* vix_prev, vix = get_vix(kite); then the kill-switch and entry tests
FetchVix ==
    /\ pc = "fetch_vix"
    /\ pc' = DispatchPc
    /\ fired' = fired \cup DispatchFired
    /\ UNCHANGED <<auxVars, LIVE_MODE, now, posVars, realized_pnl, legs_booked, last_snapshot_min,
                   flagVars, localVars, events, orders, raised, pre>>

\* ------------------------------------------------------------------------
\* KILL SWITCH: position open and flag disabled
\* ------------------------------------------------------------------------
\* Variant: the put leg left out of the kill-switch PnL
KsBook_call_only(cx, px) ==
    /\ realized_pnl' = realized_pnl + (cx - ce_entry) * QTY_PER_LEG
    /\ legs_booked' = TRUE
    /\ pc' = "ks_log"

\* pnl = (ce_exit - ce_entry + pe_exit - pe_entry) * QTY_PER_LEG
\* realized_pnl += pnl
KsBook(cx, px) ==
    /\ realized_pnl' = realized_pnl + LegPnl(cx, ce_entry, px, pe_entry)
    /\ legs_booked' = TRUE
    /\ pc' = "ks_log"

\* ce_exit = ltp(kite, ce_inst)
KsCeExit ==
    /\ pc = "ks_ce_exit"
    /\ \E p \in Prices : ce_exit' = p
    /\ pc' = "ks_pe_exit"
    /\ UNCHANGED <<auxVars, LIVE_MODE, now, posVars, realized_pnl, legs_booked, last_snapshot_min,
                   flagVars, spot, pe_exit, ce_ltp, pe_ltp, unreal,
                   events, orders, tickVars>>

\* pe_exit = ltp(kite, pe_inst)
KsPeExit ==
    /\ pc = "ks_pe_exit"
    /\ \E p \in Prices :
        /\ pe_exit' = p
        /\ IF LIVE_MODE
             THEN pc' = "ks_sell_ce" /\ UNCHANGED <<realized_pnl, legs_booked>>
             ELSE KsBook(ce_exit, p)
    /\ UNCHANGED <<auxVars, LIVE_MODE, now, posVars, last_snapshot_min,
                   flagVars, spot, ce_exit, ce_ltp, pe_ltp, unreal,
                   events, orders, tickVars>>

\* stocko_place_by_tradingsymbol(ce_inst, "SELL", QTY_PER_LEG)
KsSellCe ==
    /\ pc = "ks_sell_ce"
    /\ orders' = Append(orders, [side |-> "SELL", symbol |-> ce_symbol])
    /\ pc' = "ks_sell_pe"
    /\ UNCHANGED <<auxVars, LIVE_MODE, now, posVars, realized_pnl, legs_booked, last_snapshot_min,
                   flagVars, localVars, events, tickVars>>

\* stocko_place_by_tradingsymbol(pe_inst, "SELL", QTY_PER_LEG)
KsSellPe ==
    /\ pc = "ks_sell_pe"
    /\ orders' = Append(orders, [side |-> "SELL", symbol |-> pe_symbol])
    /\ KsBook(ce_exit, pe_exit)
    /\ UNCHANGED <<auxVars, LIVE_MODE, now, posVars, last_snapshot_min,
                   flagVars, localVars, events, tickVars>>

\* Bookkeeping of the SNAPSHOT rows: a row logged in minute m, new legs
\* entered, the position closed
SnapRowLogged(m) ==
    /\ snap_min' = m
    /\ legs_snap_min' = m

SnapNewLegs ==
    /\ legs_snap_min' = None
    /\ UNCHANGED snap_min

SnapPositionClosed ==
    /\ snap_min' = None
    /\ legs_snap_min' = None

\* The position record after an exit
ClearPosition ==
    /\ position_open' = FALSE
    /\ active_atm' = None
    /\ ce_symbol' = NoSymbol
    /\ pe_symbol' = NoSymbol
    /\ ce_entry' = None
    /\ pe_entry' = None
    /\ last_snapshot_min' = None
    /\ legs_booked' = FALSE
    /\ SnapPositionClosed

\* log_db(... event="KILL_SWITCH_EXIT" ...); clear the position; continue
KsLog ==
    /\ pc = "ks_log"
    /\ events' = Append(events,
          Row("KILL_SWITCH_EXIT", "EXIT", "FLAG_DISABLED", active_atm, ce_exit, pe_exit,
              LegPnl(ce_exit, ce_entry, pe_exit, pe_entry)))
    /\ ClearPosition
    /\ pc' = "sleep"
    /\ UNCHANGED <<atrVars, roundVars, LIVE_MODE, now, realized_pnl, flagVars, localVars,
                   orders, tickVars>>

\* ------------------------------------------------------------------------
\* ENTRY
\* ------------------------------------------------------------------------
\* Variant: the entry books the premium paid for the call as realized PnL
EntryCommit_books_premium ==
    /\ position_open' = TRUE
    /\ active_atm' = atm
    /\ last_snapshot_min' = None
    /\ realized_pnl' = realized_pnl - ce_entry * QTY_PER_LEG
    /\ pc' = "en_log"
    /\ legs_booked' = FALSE
    /\ SnapNewLegs

\* position_open = True; active_atm = atm; last_snapshot_min = None
EntryCommit ==
    /\ position_open' = TRUE
    /\ active_atm' = atm
    /\ last_snapshot_min' = None
    /\ realized_pnl' = realized_pnl
    /\ pc' = "en_log"
    /\ legs_booked' = FALSE
    /\ SnapNewLegs

\* ce_symbol = get_nearest_option_symbol(nfo, atm, "CE", today)
EnCeSym ==
    /\ pc = "en_ce_sym"
    /\ ce_symbol' = get_nearest_option_symbol(atm, "CE")
    /\ pc' = "en_pe_sym"
    /\ UNCHANGED <<auxVars, LIVE_MODE, now, position_open, active_atm, pe_symbol,
                   ce_entry, pe_entry, realized_pnl, legs_booked, last_snapshot_min,
                   flagVars, localVars, events, orders, tickVars>>

\* pe_symbol = get_nearest_option_symbol(nfo, atm, "PE", today)
EnPeSym ==
    /\ pc = "en_pe_sym"
    /\ pe_symbol' = get_nearest_option_symbol(atm, "PE")
    /\ pc' = "en_ce_ltp"
    /\ UNCHANGED <<auxVars, LIVE_MODE, now, position_open, active_atm, ce_symbol,
                   ce_entry, pe_entry, realized_pnl, legs_booked, last_snapshot_min,
                   flagVars, localVars, events, orders, tickVars>>

\* ce_entry = ltp(kite, ce_symbol)
EnCeLtp ==
    /\ pc = "en_ce_ltp"
    /\ \E p \in Prices : ce_entry' = p
    /\ pc' = "en_pe_ltp"
    /\ UNCHANGED <<auxVars, LIVE_MODE, now, position_open, active_atm, ce_symbol,
                   pe_symbol, pe_entry, realized_pnl, legs_booked, last_snapshot_min,
                   flagVars, localVars, events, orders, tickVars>>

\* pe_entry = ltp(kite, pe_symbol)
EnPeLtp ==
    /\ pc = "en_pe_ltp"
    /\ \E p \in Prices : pe_entry' = p
    /\ IF LIVE_MODE
         THEN /\ pc' = "en_buy_ce"
              /\ UNCHANGED <<position_open, active_atm, last_snapshot_min,
                             realized_pnl, legs_booked, snapGhost>>
         ELSE EntryCommit
    /\ UNCHANGED <<atrVars, roundVars, LIVE_MODE, now, ce_symbol, pe_symbol, ce_entry,
                   flagVars, localVars, events, orders, tickVars>>

\* stocko_place_by_tradingsymbol(ce_symbol, "BUY", QTY_PER_LEG)
EnBuyCe ==
    /\ pc = "en_buy_ce"
    /\ orders' = Append(orders, [side |-> "BUY", symbol |-> ce_symbol])
    /\ pc' = "en_buy_pe"
    /\ UNCHANGED <<auxVars, LIVE_MODE, now, posVars, realized_pnl, legs_booked, last_snapshot_min,
                   flagVars, localVars, events, tickVars>>

\* stocko_place_by_tradingsymbol(pe_symbol, "BUY", QTY_PER_LEG)
EnBuyPe ==
    /\ pc = "en_buy_pe"
    /\ orders' = Append(orders, [side |-> "BUY", symbol |-> pe_symbol])
    /\ EntryCommit
    /\ UNCHANGED <<atrVars, roundVars, LIVE_MODE, now, ce_symbol, pe_symbol, ce_entry, pe_entry,
                   flagVars, localVars, events, tickVars>>

\* log_db(... event="ENTRY" ...); falls through to position management
EnLog ==
    /\ pc = "en_log"
    /\ events' = Append(events, Row("ENTRY", "OPEN", "ATM_TOUCH", atm, None, None, 0))
    /\ pc' = "pm_ce_ltp"
    /\ UNCHANGED <<auxVars, LIVE_MODE, now, posVars, realized_pnl, legs_booked, last_snapshot_min,
                   flagVars, localVars, orders, tickVars>>

\* ------------------------------------------------------------------------
\* POSITION MANAGEMENT: snapshot, roll test, target / stop-loss test
\* ------------------------------------------------------------------------
\* Variant: the target / stop-loss test comes before the roll test
ManagePc_exit_first(u) ==
    IF FinalExitGuard(u) THEN "fx_ce_exit"
    ELSE IF RollGuard THEN "ro_ce_exit"
    ELSE "sleep"

\* Where the tick goes after the snapshot block, given unreal = u
ManagePc(u) ==
    IF RollGuard THEN "ro_ce_exit"
    ELSE IF FinalExitGuard(u) THEN "fx_ce_exit"
    ELSE "sleep"

ManageFired(u) ==
    IF RollGuard THEN {"ROLL"}
    ELSE IF FinalExitGuard(u) THEN {"FINAL_EXIT"}
    ELSE {}

\* ce_ltp = ltp(kite, ce_symbol)
PmCeLtp ==
    /\ pc = "pm_ce_ltp"
    /\ \E p \in Prices : ce_ltp' = p
    /\ pc' = "pm_pe_ltp"
    /\ UNCHANGED <<auxVars, LIVE_MODE, now, posVars, realized_pnl, legs_booked, last_snapshot_min,
                   flagVars, spot, ce_exit, pe_exit, pe_ltp, unreal,
                   events, orders, tickVars>>

\* pe_ltp = ltp(kite, pe_symbol); unreal = ...; the snapshot test
PmPeLtp ==
    /\ pc = "pm_pe_ltp"
    /\ \E p \in Prices :
        /\ pe_ltp' = p
        /\ unreal' = LegPnl(ce_ltp, ce_entry, p, pe_entry)
        /\ IF SnapshotDue(MinuteOf(now))
             THEN /\ last_snapshot_min' = MinuteOf(now)
                  /\ pc' = "pm_snap_log"
                  /\ UNCHANGED fired
             ELSE /\ UNCHANGED last_snapshot_min
                  /\ pc' = ManagePc(unreal')
                  /\ fired' = fired \cup ManageFired(unreal')
    /\ UNCHANGED <<auxVars, LIVE_MODE, now, posVars, realized_pnl, legs_booked,
                   flagVars, spot, ce_exit, pe_exit, ce_ltp,
                   events, orders, raised, pre>>

\* log_db(... event="SNAPSHOT" ...)
PmSnapLog ==
    /\ pc = "pm_snap_log"
    /\ events' = Append(events,
          Row("SNAPSHOT", "M2M", SnapshotReason, active_atm, None, None, unreal))
    /\ SnapRowLogged(MinuteOf(now))
    /\ pc' = ManagePc(unreal)
    /\ fired' = fired \cup ManageFired(unreal)
    /\ UNCHANGED <<atrVars, roundVars, LIVE_MODE, now, posVars, realized_pnl, legs_booked, last_snapshot_min,
                   flagVars, localVars, orders, raised, pre>>

\* ------------------------------------------------------------------------
\* ROLL: exit the old legs, enter the legs of the new strike
\* ------------------------------------------------------------------------
\* roll_pnl = (ce_exit - ce_entry + pe_exit - pe_entry) * QTY_PER_LEG
\* realized_pnl += roll_pnl
RoBook(cx, px) ==
    /\ realized_pnl' = realized_pnl + LegPnl(cx, ce_entry, px, pe_entry)
    /\ legs_booked' = TRUE
    /\ pc' = "ro_exit_log"

\* Variant: the roll keeps the snapshot key of the old legs
RoCommit_keeps_key ==
    /\ active_atm' = new_atm
    /\ last_snapshot_min' = last_snapshot_min
    /\ pc' = "ro_entry_log"
    /\ legs_booked' = FALSE
    /\ SnapNewLegs

\* active_atm = new_atm; last_snapshot_min = None
RoCommit ==
    /\ active_atm' = new_atm
    /\ last_snapshot_min' = None
    /\ pc' = "ro_entry_log"
    /\ legs_booked' = FALSE
    /\ SnapNewLegs

RoCeExit ==
    /\ pc = "ro_ce_exit"
    /\ \E p \in Prices : ce_exit' = p
    /\ pc' = "ro_pe_exit"
    /\ UNCHANGED <<auxVars, LIVE_MODE, now, posVars, realized_pnl, legs_booked, last_snapshot_min,
                   flagVars, spot, pe_exit, ce_ltp, pe_ltp, unreal,
                   events, orders, tickVars>>

RoPeExit ==
    /\ pc = "ro_pe_exit"
    /\ \E p \in Prices :
        /\ pe_exit' = p
        /\ IF LIVE_MODE
             THEN pc' = "ro_sell_ce" /\ UNCHANGED <<realized_pnl, legs_booked>>
             ELSE RoBook(ce_exit, p)
    /\ UNCHANGED <<auxVars, LIVE_MODE, now, posVars, last_snapshot_min,
                   flagVars, spot, ce_exit, ce_ltp, pe_ltp, unreal,
                   events, orders, tickVars>>

RoSellCe ==
    /\ pc = "ro_sell_ce"
    /\ orders' = Append(orders, [side |-> "SELL", symbol |-> ce_symbol])
    /\ pc' = "ro_sell_pe"
    /\ UNCHANGED <<auxVars, LIVE_MODE, now, posVars, realized_pnl, legs_booked, last_snapshot_min,
                   flagVars, localVars, events, tickVars>>

RoSellPe ==
    /\ pc = "ro_sell_pe"
    /\ orders' = Append(orders, [side |-> "SELL", symbol |-> pe_symbol])
    /\ RoBook(ce_exit, pe_exit)
    /\ UNCHANGED <<auxVars, LIVE_MODE, now, posVars, last_snapshot_min,
                   flagVars, localVars, events, tickVars>>

\* log_db(... event="ROLL_EXIT" ...)
RoExitLog ==
    /\ pc = "ro_exit_log"
    /\ events' = Append(events,
          Row("ROLL_EXIT", "EXIT", "STRIKE_SHIFT", active_atm, ce_exit, pe_exit,
              LegPnl(ce_exit, ce_entry, pe_exit, pe_entry)))
    /\ pc' = "ro_ce_sym"
    /\ UNCHANGED <<auxVars, LIVE_MODE, now, posVars, realized_pnl, legs_booked, last_snapshot_min,
                   flagVars, localVars, orders, tickVars>>

\* ce_symbol = get_nearest_option_symbol(nfo, new_atm, "CE", today)
RoCeSym ==
    /\ pc = "ro_ce_sym"
    /\ ce_symbol' = get_nearest_option_symbol(new_atm, "CE")
    /\ pc' = "ro_pe_sym"
    /\ UNCHANGED <<auxVars, LIVE_MODE, now, position_open, active_atm, pe_symbol,
                   ce_entry, pe_entry, realized_pnl, legs_booked, last_snapshot_min,
                   flagVars, localVars, events, orders, tickVars>>

\* pe_symbol = get_nearest_option_symbol(nfo, new_atm, "PE", today)
RoPeSym ==
    /\ pc = "ro_pe_sym"
    /\ pe_symbol' = get_nearest_option_symbol(new_atm, "PE")
    /\ pc' = "ro_ce_ltp"
    /\ UNCHANGED <<auxVars, LIVE_MODE, now, position_open, active_atm, ce_symbol,
                   ce_entry, pe_entry, realized_pnl, legs_booked, last_snapshot_min,
                   flagVars, localVars, events, orders, tickVars>>

\* ce_entry = ltp(kite, ce_symbol)
RoCeLtp ==
    /\ pc = "ro_ce_ltp"
    /\ \E p \in Prices : ce_entry' = p
    /\ pc' = "ro_pe_ltp"
    /\ UNCHANGED <<auxVars, LIVE_MODE, now, position_open, active_atm, ce_symbol,
                   pe_symbol, pe_entry, realized_pnl, legs_booked, last_snapshot_min,
                   flagVars, localVars, events, orders, tickVars>>

\* pe_entry = ltp(kite, pe_symbol)
RoPeLtp ==
    /\ pc = "ro_pe_ltp"
    /\ \E p \in Prices : pe_entry' = p
    /\ IF LIVE_MODE
         THEN /\ pc' = "ro_buy_ce"
              /\ UNCHANGED <<active_atm, last_snapshot_min, legs_booked, snapGhost>>
         ELSE RoCommit
    /\ UNCHANGED <<atrVars, roundVars, LIVE_MODE, now, position_open, ce_symbol, pe_symbol,
                   ce_entry, realized_pnl,
                   flagVars, localVars, events, orders, tickVars>>

RoBuyCe ==
    /\ pc = "ro_buy_ce"
    /\ orders' = Append(orders, [side |-> "BUY", symbol |-> ce_symbol])
    /\ pc' = "ro_buy_pe"
    /\ UNCHANGED <<auxVars, LIVE_MODE, now, posVars, realized_pnl, legs_booked, last_snapshot_min,
                   flagVars, localVars, events, tickVars>>

RoBuyPe ==
    /\ pc = "ro_buy_pe"
    /\ orders' = Append(orders, [side |-> "BUY", symbol |-> pe_symbol])
    /\ RoCommit
    /\ UNCHANGED <<atrVars, roundVars, LIVE_MODE, now, position_open, ce_symbol, pe_symbol,
                   ce_entry, pe_entry, realized_pnl,
                   flagVars, localVars, events, tickVars>>

\* log_db(... event="ROLL_ENTRY" ...); continue
RoEntryLog ==
    /\ pc = "ro_entry_log"
    /\ events' = Append(events,
          Row("ROLL_ENTRY", "OPEN", "ATM_ROLL", new_atm, None, None, 0))
    /\ pc' = "sleep"
    /\ UNCHANGED <<auxVars, LIVE_MODE, now, posVars, realized_pnl, legs_booked, last_snapshot_min,
                   flagVars, localVars, orders, tickVars>>

\* ------------------------------------------------------------------------
\* FINAL EXIT on target / stop loss
\* ------------------------------------------------------------------------
\* realized_pnl += unreal
FxBook ==
    /\ realized_pnl' = realized_pnl + unreal
    /\ legs_booked' = TRUE
    /\ pc' = "fx_log"

FxCeExit ==
    /\ pc = "fx_ce_exit"
    /\ \E p \in Prices : ce_exit' = p
    /\ pc' = "fx_pe_exit"
    /\ UNCHANGED <<auxVars, LIVE_MODE, now, posVars, realized_pnl, legs_booked, last_snapshot_min,
                   flagVars, spot, pe_exit, ce_ltp, pe_ltp, unreal,
                   events, orders, tickVars>>

FxPeExit ==
    /\ pc = "fx_pe_exit"
    /\ \E p \in Prices : pe_exit' = p
    /\ IF LIVE_MODE
         THEN pc' = "fx_sell_ce" /\ UNCHANGED <<realized_pnl, legs_booked>>
         ELSE FxBook
    /\ UNCHANGED <<auxVars, LIVE_MODE, now, posVars, last_snapshot_min,
                   flagVars, spot, ce_exit, ce_ltp, pe_ltp, unreal,
                   events, orders, tickVars>>

FxSellCe ==
    /\ pc = "fx_sell_ce"
    /\ orders' = Append(orders, [side |-> "SELL", symbol |-> ce_symbol])
    /\ pc' = "fx_sell_pe"
    /\ UNCHANGED <<auxVars, LIVE_MODE, now, posVars, realized_pnl, legs_booked, last_snapshot_min,
                   flagVars, localVars, events, tickVars>>

FxSellPe ==
    /\ pc = "fx_sell_pe"
    /\ orders' = Append(orders, [side |-> "SELL", symbol |-> pe_symbol])
    /\ FxBook
    /\ UNCHANGED <<auxVars, LIVE_MODE, now, posVars, last_snapshot_min,
                   flagVars, localVars, events, tickVars>>

\* log_db(... event="FINAL_EXIT" ...); clear the position
FxLog ==
    /\ pc = "fx_log"
    /\ events' = Append(events,
          Row("FINAL_EXIT", "EXIT", FinalExitReason(unreal), active_atm,
              ce_exit, pe_exit, unreal))
    /\ ClearPosition
    /\ pc' = "sleep"
    /\ UNCHANGED <<atrVars, roundVars, LIVE_MODE, now, realized_pnl, flagVars, localVars,
                   orders, tickVars>>

\* ------------------------------------------------------------------------
\* A failing external call, and the end of the tick
\* ------------------------------------------------------------------------
CallSites ==
    {"fetch_spot", "fetch_fut", "fetch_vix",
     "ks_ce_exit", "ks_pe_exit", "ks_sell_ce", "ks_sell_pe", "ks_log",
     "en_ce_sym", "en_pe_sym", "en_ce_ltp", "en_pe_ltp", "en_buy_ce",
     "en_buy_pe", "en_log",
     "pm_ce_ltp", "pm_pe_ltp", "pm_snap_log",
     "ro_ce_exit", "ro_pe_exit", "ro_sell_ce", "ro_sell_pe", "ro_exit_log",
     "ro_ce_sym", "ro_pe_sym", "ro_ce_ltp", "ro_pe_ltp", "ro_buy_ce",
     "ro_buy_pe", "ro_entry_log",
     "fx_ce_exit", "fx_pe_exit", "fx_sell_ce", "fx_sell_pe", "fx_log"}

LogSites ==
    {"ks_log", "en_log", "pm_snap_log", "ro_exit_log", "ro_entry_log", "fx_log"}

\* Variant: a failing log append is not caught and ends the process
Raise_log_fatal ==
    /\ pc \in CallSites
    /\ raised' = pc
    /\ pc' = IF pc \in LogSites THEN "crashed" ELSE "sleep"
    /\ UNCHANGED <<auxVars, LIVE_MODE, now, posVars, realized_pnl, legs_booked, last_snapshot_min,
                   flagVars, localVars, events, orders, fired, pre>>

\* except Exception as e: print(...); time.sleep(5)
Raise ==
    /\ pc \in CallSites
    /\ raised' = pc
    /\ pc' = "sleep"
    /\ UNCHANGED <<auxVars, LIVE_MODE, now, posVars, realized_pnl, legs_booked, last_snapshot_min,
                   flagVars, localVars, events, orders, fired, pre>>

\* time.sleep(...); the next iteration starts with fresh locals
TickEnd ==
    /\ pc = "sleep"
    /\ pc' = "top"
    /\ spot' = None
    /\ ce_exit' = None
    /\ pe_exit' = None
    /\ ce_ltp' = None
    /\ pe_ltp' = None
    /\ unreal' = 0
    /\ events' = <<>>
    /\ orders' = <<>>
    /\ fired' = {}
    /\ raised' = "none"
    /\ flag_read' = "none"
    /\ pre' = NoPosition
    /\ UNCHANGED <<auxVars, LIVE_MODE, now, posVars, realized_pnl, legs_booked, last_snapshot_min,
                   last_flag_min, trade_allowed, poll_min, poll_count>>

Next ==
    \/ TickStart \/ FetchSpot \/ FetchFut \/ FetchVix
    \/ KsCeExit \/ KsPeExit \/ KsSellCe \/ KsSellPe \/ KsLog
    \/ EnCeSym \/ EnPeSym \/ EnCeLtp \/ EnPeLtp \/ EnBuyCe \/ EnBuyPe \/ EnLog
    \/ PmCeLtp \/ PmPeLtp \/ PmSnapLog
    \/ RoCeExit \/ RoPeExit \/ RoSellCe \/ RoSellPe \/ RoExitLog
    \/ RoCeSym \/ RoPeSym \/ RoCeLtp \/ RoPeLtp \/ RoBuyCe \/ RoBuyPe \/ RoEntryLog
    \/ FxCeExit \/ FxPeExit \/ FxSellCe \/ FxSellPe \/ FxLog
    \/ Raise \/ TickEnd

Spec == Init /\ [][Next]_vars

\* ------------------------------------------------------------------------
\* FutAtrBuilder on its own: a builder of any period up to MaxPeriod is fed
\* samples at non-decreasing times
\* ------------------------------------------------------------------------
InitAtr ==
    /\ MainInit
    /\ now = 0
    /\ \E p \in 1..MaxPeriod : FutAtrBuilder_init(p)
    /\ RoundIdle

\* atr_builder.update(now, fut) with a number for fut
AtrUpdate ==
    /\ \E t \in now..MaxAtrNow, f \in AtrSamples :
        /\ now' = t
        /\ FutAtrBuilder_update(MinuteOf(t), f)
    /\ UNCHANGED <<mainVars, roundVars>>

\* atr_builder.update(now, fut) with float("nan") for fut
AtrUpdateNaN ==
    /\ \E t \in now..MaxAtrNow :
        /\ now' = t
        /\ FutAtrBuilder_update(MinuteOf(t), NaN)
    /\ UNCHANGED <<mainVars, roundVars>>

NextAtr == AtrUpdate

SpecAtr == InitAtr /\ [][NextAtr]_vars

NextAtrNaN == AtrUpdate \/ AtrUpdateNaN

SpecAtrNaN == InitAtr /\ [][NextAtrNaN]_vars

\* ------------------------------------------------------------------------
\* round_to_strike on its own: any price up to MaxRoundPrice and a few index
\* levels, any step from 1 to MaxRoundStep and the step of the configuration
\* ------------------------------------------------------------------------
RoundSpots == Spots \cup {22475, 22525}

InitRound ==
    /\ MainInit
    /\ now = 0
    /\ FutAtrBuilder_init(ATR_PERIOD)
    /\ rs_price \in (0..MaxRoundPrice) \cup RoundSpots
    /\ rs_step \in (1..MaxRoundStep) \cup {STRIKE_STEP}
    /\ rs_strike = None
    /\ rs_again = None

\* round_to_strike(price), and round_to_strike of the result
RoundApply ==
    /\ rs_strike = None
    /\ rs_strike' = round_to_strike_step(rs_price, rs_step)
    /\ rs_again' = round_to_strike_step(rs_strike', rs_step)
    /\ UNCHANGED <<mainVars, now, atrVars, rs_price, rs_step>>

NextRound == RoundApply

SpecRound == InitRound /\ [][NextRound]_vars

\* ------------------------------------------------------------------------
\* Properties
\* ------------------------------------------------------------------------
IsFlat ==
    /\ ~position_open
    /\ active_atm = None
    /\ ce_symbol = NoSymbol
    /\ pe_symbol = NoSymbol
    /\ ce_entry = None
    /\ pe_entry = None

IsFullyOpen ==
    /\ position_open
    /\ active_atm # None
    /\ ce_symbol = get_nearest_option_symbol(active_atm, "CE")
    /\ pe_symbol = get_nearest_option_symbol(active_atm, "PE")
    /\ ce_entry # None
    /\ pe_entry # None

EventKinds == {events[i].event : i \in DOMAIN events}

RollReentrySites ==
    {"ro_ce_sym", "ro_pe_sym", "ro_ce_ltp", "ro_pe_ltp", "ro_buy_ce", "ro_buy_pe"}

EntrySites ==
    {"en_ce_sym", "en_pe_sym", "en_ce_ltp", "en_pe_ltp", "en_buy_ce", "en_buy_pe"}

\* C1: when the re-entry half of a ROLL fails (symbol resolution, price
\* fetch or BUY) after the old legs were closed, the tick ends with the
\* position FLAT and an error event in the event log.
C1_RollFailureForcesFlat ==
    (pc = "sleep" /\ raised \in RollReentrySites)
        => (IsFlat /\ \E i \in DOMAIN events : events[i].status = "ERROR")

\* C2: no position is OPEN at the end of a tick whose wall clock is past
\* the forced square-off time (the end of market hours).
C2_NoOpenPositionPastSquareOff ==
    (pc = "sleep" /\ now > MARKET_END_TIME) => ~position_open

\* C3: while the cached trade flag is not-allowed, neither ENTRY nor ROLL
\* fires in the tick: no BUY order is placed and no ENTRY or ROLL_ENTRY row
\* is logged, whatever the spot and the tolerance test are.
C3_NoEntryOrRollWhenDisabled ==
    ~trade_allowed =>
        /\ fired \cap {"ENTRY", "ROLL"} = {}
        /\ \A i \in DOMAIN orders : orders[i].side # "BUY"
        /\ EventKinds \cap {"ENTRY", "ROLL_ENTRY"} = {}

\* a tick ended with the flag disabled, the position flat and the spot
\* within the tolerance of its strike
C3_Witness ==
    /\ pc = "sleep"
    /\ raised = "none"
    /\ ~trade_allowed
    /\ ~pre.position_open
    /\ spot # None
    /\ dist <= ENTRY_TOL

\* C4: an in-market tick that starts with the position OPEN, has the trade
\* flag not-allowed and meets no failing call does KILL_SWITCH_EXIT and
\* nothing else: both legs sold, realized PnL increased by
\* (ceExit - ceEntry + peExit - peEntry) * quantityPerLeg, one
\* KILL_SWITCH_EXIT row, position FLAT, no other transition or snapshot.
C4_KillSwitchExitOnly ==
    (/\ pc = "sleep"
     /\ in_market_hours(now)
     /\ raised = "none"
     /\ pre.position_open
     /\ ~trade_allowed)
        => /\ fired = {"KILL_SWITCH_EXIT"}
           /\ Len(events) = 1
           /\ events[1].event = "KILL_SWITCH_EXIT"
           /\ realized_pnl = pre.realized_pnl
                + (ce_exit - pre.ce_entry + pe_exit - pre.pe_entry) * QTY_PER_LEG
           /\ IsFlat
           /\ orders = IF LIVE_MODE
                         THEN <<[side |-> "SELL", symbol |-> pre.ce_symbol],
                                [side |-> "SELL", symbol |-> pre.pe_symbol]>>
                         ELSE <<>>

\* a kill-switch exit taken with a profit at or beyond the profit target
C4_Witness ==
    /\ pc = "sleep"
    /\ in_market_hours(now)
    /\ raised = "none"
    /\ pre.position_open
    /\ ~trade_allowed
    /\ realized_pnl - pre.realized_pnl >= PROFIT_TARGET

\* C5: a failed read of the trade flag (exception, missing row, missing
\* column) leaves the gate not-allowed, and the gate turns to allowed only
\* by a read that returns true.
C5_ReadFailureBlocks ==
    [][/\ flag_read' \in {"error", "norow", "nocol"} => ~trade_allowed'
       /\ (~trade_allowed /\ trade_allowed') => flag_read' = "true"]_vars

\* the read failed in a tick that began with the cached value True
C5_Witness ==
    /\ flag_read \in {"error", "norow", "nocol"}
    /\ pre.trade_allowed
    /\ ~trade_allowed

\* C6: with a non-decreasing wall clock the trade flag is read at most once
\* in every wall-clock minute.
C6_OnePollPerMinute == poll_count <= 1

\* a tick in the minute of the latest read that made no read of its own
C6_Witness ==
    /\ pc = "fetch_spot"
    /\ flag_read = "none"
    /\ poll_min = MinuteOf(now)
    /\ poll_count = 1

\* C7: at most one of the transitions fires in a tick.
C7_AtMostOneTransition == Cardinality(fired) <= 1

\* C8: at the end of every tick the position record is fully populated for
\* one strike, or fully empty.
C8_PositionAllOrNothing == pc = "sleep" => (IsFlat \/ IsFullyOpen)

\* C9: a tick whose ENTRY fails (symbol resolution, entry price fetch or
\* BUY) ends FLAT with the strike, symbols and entry prices it began with.
C9_FailedEntryLeavesPosition ==
    (pc = "sleep" /\ raised \in EntrySites)
        => /\ ~position_open
           /\ active_atm = pre.active_atm
           /\ ce_symbol = pre.ce_symbol
           /\ pe_symbol = pre.pe_symbol
           /\ ce_entry = pre.ce_entry
           /\ pe_entry = pre.pe_entry

\* C10: realized PnL differs from its value at the start of the tick only
\* in ticks that took an exit branch (KILL_SWITCH_EXIT, ROLL, FINAL_EXIT).
C10_RealizedOnlyOnExit ==
    (pc # "top" /\ realized_pnl # pre.realized_pnl)
        => fired \cap {"KILL_SWITCH_EXIT", "ROLL", "FINAL_EXIT"} # {}

\* a tick that performed ENTRY only, with realized PnL carried over from
\* earlier exits
C10_Witness ==
    /\ pc = "sleep"
    /\ raised = "none"
    /\ fired = {"ENTRY"}
    /\ "ENTRY" \in EventKinds
    /\ realized_pnl # 0
    /\ realized_pnl = pre.realized_pnl

\* C11: in a tick that begins OPEN, with the trade flag allowed and no
\* failing call, ROLL fires exactly when round_to_strike(spot) differs from
\* the active strike and the spot is within the tolerance of it; after the
\* ROLL the position is OPEN on the candidate strike.
C11_RollIffNewStrikeInTolerance ==
    (/\ pc = "sleep"
     /\ raised = "none"
     /\ spot # None
     /\ pre.position_open
     /\ trade_allowed)
        => /\ ("ROLL" \in fired)
                <=> (/\ round_to_strike(spot) # pre.active_atm
                     /\ Abs(spot - round_to_strike(spot)) <= ENTRY_TOL)
           /\ ("ROLL" \in fired)
                => (/\ position_open
                    /\ active_atm = round_to_strike(spot)
                    /\ ce_symbol = get_nearest_option_symbol(active_atm, "CE")
                    /\ pe_symbol = get_nearest_option_symbol(active_atm, "PE")
                    /\ "ROLL_ENTRY" \in EventKinds)

\* a completed roll to another strike, and a tick within the tolerance of
\* the active strike that did not roll
C11_Witness ==
    /\ pc = "sleep"
    /\ raised = "none"
    /\ pre.position_open
    /\ trade_allowed
    /\ "ROLL" \in fired
    /\ active_atm # pre.active_atm

C11_WitnessSameStrike ==
    /\ pc = "sleep"
    /\ raised = "none"
    /\ spot # None
    /\ pre.position_open
    /\ trade_allowed
    /\ round_to_strike(spot) = pre.active_atm
    /\ dist <= ENTRY_TOL
    /\ "ROLL" \notin fired

\* C12: in a tick that begins FLAT, with the trade flag allowed and no
\* failing call, ENTRY fires exactly when the spot is within the tolerance
\* of round_to_strike(spot); ENTRY never fires in a tick that begins OPEN;
\* when the ENTRY row has been logged the position is OPEN on
\* round_to_strike(spot) and the row has status OPEN.
C12_EntryIffInTolerance ==
    /\ (/\ pc = "sleep"
        /\ raised = "none"
        /\ spot # None
        /\ ~pre.position_open
        /\ trade_allowed)
          => (("ENTRY" \in fired)
                <=> Abs(spot - round_to_strike(spot)) <= ENTRY_TOL)
    /\ ("ENTRY" \in fired) => ~pre.position_open
    /\ (events # <<>> /\ events[Len(events)].event = "ENTRY")
          => (/\ position_open
              /\ active_atm = round_to_strike(spot)
              /\ events[Len(events)].status = "OPEN"
              /\ events[Len(events)].atm = round_to_strike(spot)
              /\ ce_symbol = get_nearest_option_symbol(active_atm, "CE")
              /\ pe_symbol = get_nearest_option_symbol(active_atm, "PE"))

\* the ENTRY row has just been logged
C12_Witness ==
    /\ pc = "pm_ce_ltp"
    /\ "ENTRY" \in fired
    /\ events # <<>>
    /\ events[Len(events)].event = "ENTRY"
    /\ position_open


SnapshotRows == Cardinality({i \in DOMAIN events : events[i].event = "SNAPSHOT"})

\* the step appends a SNAPSHOT row to the event log
SnapshotLogged ==
    /\ Len(events') = Len(events) + 1
    /\ events'[Len(events')].event = "SNAPSHOT"

\* a tick that met no failing call, began OPEN with the flag allowed and
\* runs in a minute later than the one of the snapshot key it began with
LaterMinuteTick ==
    /\ pc = "sleep"
    /\ raised = "none"
    /\ in_market_hours(now)
    /\ pre.position_open
    /\ trade_allowed
    /\ pre.last_snapshot_min # None
    /\ MinuteOf(now) > pre.last_snapshot_min

C13_WitnessNextMinute ==
    /\ LaterMinuteTick
    /\ SnapshotRows = 1
    /\ position_open

\* C14: ENTRY and ROLL reset the snapshot key, so that the entry tick logs
\* a SNAPSHOT of the new legs right after its ENTRY row, a ROLL leaves the
\* key reset and the first tick after it that goes through position
\* management logs a SNAPSHOT of the new legs whatever the minute; every
\* exit to FLAT resets the key as well.
C14_KeyResetOnEntryRollExit ==
    /\ (pc = "sleep" /\ raised = "none")
         => \A i \in DOMAIN events :
              events[i].event = "ENTRY"
                => /\ i < Len(events)
                   /\ events[i + 1].event = "SNAPSHOT"
                   /\ events[i + 1].atm = events[i].atm
    /\ (pc = "sleep" /\ "ROLL_ENTRY" \in EventKinds)
         => (position_open /\ last_snapshot_min = None)
    /\ (/\ pc = "sleep"
        /\ raised = "none"
        /\ in_market_hours(now)
        /\ pre.position_open
        /\ trade_allowed
        /\ pre.last_snapshot_min = None)
         => /\ events # <<>>
            /\ events[1].event = "SNAPSHOT"
            /\ events[1].atm = pre.active_atm
    /\ (pre.position_open /\ ~position_open) => last_snapshot_min = None

\* a tick that began OPEN with the key reset by a roll logged the SNAPSHOT
\* of the new legs
C14_Witness ==
    /\ pc = "sleep"
    /\ raised = "none"
    /\ pre.position_open
    /\ pre.last_snapshot_min = None
    /\ trade_allowed
    /\ SnapshotRows = 1
    /\ position_open

\* a tick rolled after logging the SNAPSHOT of the old legs
C14_WitnessRoll ==
    /\ pc = "sleep"
    /\ raised = "none"
    /\ "ROLL_ENTRY" \in EventKinds
    /\ SnapshotRows = 1

\* C15: in the event log every ROLL_EXIT row is immediately followed by a
\* ROLL_ENTRY row of the same tick.
C15_RollExitThenEntry ==
    pc = "sleep"
        => \A i \in DOMAIN events :
             events[i].event = "ROLL_EXIT"
               => /\ i < Len(events)
                  /\ events[i + 1].event = "ROLL_ENTRY"
                  /\ events[i + 1].status = "OPEN"

\* C16: a failure of any external call of a tick is caught by the handler
\* of the loop: the tick goes to its cooldown sleep, from which the loop is
\* ready to go on, and the step after the failure starts the next iteration.
C16_FailureNeverStopsLoop ==
    /\ [](raised # "none" => (pc = "sleep" /\ ENABLED TickEnd))
    /\ [][raised # "none" => (pc' = "top" /\ raised' = "none")]_vars

\* the append of the ROLL_ENTRY row failed after the re-entry was committed
C16_Witness ==
    /\ pc = "sleep"
    /\ raised = "ro_entry_log"
    /\ position_open

\* sum of seq[lo..hi]
RECURSIVE SumRange(_, _, _)
SumRange(seq, lo, hi) == IF lo > hi THEN 0 ELSE seq[lo] + SumRange(seq, lo + 1, hi)

MaxOf(S) == CHOOSE m \in S : \A x \in S : m >= x

\* the step is an update in a new minute of a seeded builder
IsRollover == last_min # None /\ last_min' # last_min

\* the step is an update in the minute of the bucket
IsSameMinute == last_min # None /\ last_min' = last_min

\* C17: update returns no ATR until `period` minute rollovers have each
\* contributed one true range max(high - low, |high - prevClose|,
\* |low - prevClose|); from then on the ATR is the mean, rounded to two
\* decimals, of the most recent `period` true ranges only, and it is what
\* update returns; samples within the minute of the bucket change neither
\* the true ranges nor the ATR.
C17_SlidingWindowAtr ==
    /\ [](/\ (self_atr = None) <=> (Len(trs) < period)
          /\ Len(trs) >= period
               => 2 * Abs(self_atr * period
                          - 100 * SumRange(trs, Len(trs) - period + 1, Len(trs)))
                    <= period)
    /\ [][/\ IsRollover
             => /\ trs' = Append(trs, MaxOf({h - l, Abs(h - prev_c), Abs(l - prev_c)}))
                /\ atr' = self_atr'
          /\ IsSameMinute
             => /\ trs' = trs
                /\ self_atr' = self_atr
                /\ atr' = self_atr
          /\ last_min = None => (atr' = None /\ trs' = trs)]_vars

\* more true ranges than the period, and the mean of the window differs
\* from the mean of them all
C17_Witness ==
    /\ Len(trs) > period
    /\ self_atr # None
    /\ 2 * Abs(self_atr * Len(trs) - 100 * SumRange(trs, 1, Len(trs))) > Len(trs)

\* C18: an update with a NaN sample is skipped: the bucket's high, low,
\* close and previous close, the minute key, the stored true ranges and
\* the ATR are unchanged, and the previously known ATR is returned.
C18_NaNSampleSkipped ==
    [][fut' = NaN
         => /\ UNCHANGED <<h, l, c, prev_c, last_min, trs, self_atr>>
            /\ atr' = self_atr]_vars

\* the price is exactly halfway between two multiples of the step
IsTie(price, step) == 2 * (price % step) = step

\* C19: round_to_strike gives a multiple of the step at most half a step
\* from the price, a price exactly halfway between two strikes goes to the
\* higher strike, and rounding the result again leaves it as it is.
C19_RoundToStrike ==
    rs_strike # None
        => /\ rs_strike % rs_step = 0
           /\ 2 * Abs(rs_strike - rs_price) <= rs_step
           /\ IsTie(rs_price, rs_step) => rs_strike > rs_price
           /\ rs_again = rs_strike

\* 22525 at step 50: halfway between 22500 and 22550, rounded to 22550
C19_Witness ==
    /\ rs_step = STRIKE_STEP
    /\ IsTie(rs_price, rs_step)
    /\ (rs_price \div rs_step) % 2 = 0
    /\ rs_strike = rs_price + STRIKE_STEP \div 2
    /\ rs_again = rs_strike

\* the call sites of a tick that come before the roll test
PreTestSites ==
    {"fetch_spot", "fetch_fut", "fetch_vix",
     "en_ce_sym", "en_pe_sym", "en_ce_ltp", "en_pe_ltp", "en_buy_ce",
     "en_buy_pe", "en_log", "pm_ce_ltp", "pm_pe_ltp", "pm_snap_log"}

\* the strike held when the tick came to the roll test
StrikeAtTest == IF pre.position_open THEN pre.active_atm ELSE atm

\* the roll guard as the tick evaluated it
RollGuardAtTest ==
    trade_allowed /\ new_atm # StrikeAtTest /\ Abs(spot - new_atm) <= ENTRY_TOL

\* C20: on a tick that begins OPEN with the flag allowed, where the roll
\* guard holds and the unrealized PnL is at or beyond the target or the
\* stop loss, ROLL fires and FINAL_EXIT does not (the tick ends OPEN on the
\* new strike when no call fails); FINAL_EXIT fires only in ticks whose
\* roll guard is false, its row carries the reason TARGET when
\* unreal >= PROFIT_TARGET and SL otherwise, and it leaves the position FLAT.
C20_RollBeforeFinalExit ==
    pc = "sleep" =>
        /\ (/\ pre.position_open
            /\ trade_allowed
            /\ raised \notin PreTestSites
            /\ RollGuardAtTest
            /\ FinalExitGuard(unreal))
             => /\ fired = {"ROLL"}
                /\ "FINAL_EXIT" \notin EventKinds
                /\ raised = "none"
                     => /\ "ROLL_ENTRY" \in EventKinds
                        /\ position_open
                        /\ active_atm = new_atm
        /\ "FINAL_EXIT" \in fired
             => /\ ~RollGuardAtTest
                /\ FinalExitGuard(unreal)
                /\ "ROLL" \notin fired
        /\ \A i \in DOMAIN events :
             events[i].event = "FINAL_EXIT"
               => /\ "FINAL_EXIT" \in fired
                  /\ i = Len(events)
                  /\ events[i].status = "EXIT"
                  /\ events[i].reason =
                       (IF unreal >= PROFIT_TARGET THEN "TARGET" ELSE "SL")
                  /\ IsFlat

\* a tick rolled although the unrealized PnL was beyond the profit target
C20_Witness ==
    /\ pc = "sleep"
    /\ raised = "none"
    /\ pre.position_open
    /\ RollGuardAtTest
    /\ unreal >= PROFIT_TARGET
    /\ fired = {"ROLL"}
    /\ "ROLL_ENTRY" \in EventKinds

\* a tick whose roll guard was false left on the stop loss
C20_WitnessStopLoss ==
    /\ pc = "sleep"
    /\ raised = "none"
    /\ pre.position_open
    /\ unreal <= -STOP_LOSS
    /\ "FINAL_EXIT" \in EventKinds
    /\ events[Len(events)].reason = "SL"
    /\ IsFlat

\* C23: for every row with status EXIT (KILL_SWITCH_EXIT, ROLL_EXIT,
\* FINAL_EXIT) the amount the exit added to realized PnL equals
\* (ce_exit - ce_entry + pe_exit - pe_entry) * QTY_PER_LEG of the exit and
\* entry prices recorded in that row.
C23_BookedAmountMatchesRow ==
    pc = "sleep"
        => \A i \in DOMAIN events :
             events[i].status = "EXIT"
               => events[i].realized_pnl - pre.realized_pnl
                    = LegPnl(events[i].ce_exit, events[i].ce_entry,
                             events[i].pe_exit, events[i].pe_entry)

\* the option symbols the loop can trade
OptionSymbols ==
    {get_nearest_option_symbol(round_to_strike(s), t) : s \in Spots, t \in {"CE", "PE"}}

\* the quantity of sym that a position record counts as held
TrackedQty(rec, sym) ==
    IF rec.position_open /\ sym \in {rec.ce_symbol, rec.pe_symbol}
      THEN QTY_PER_LEG ELSE 0

\* the quantity of sym in the orders of the given side that the gateway
\* accepted in this tick
OrderedQty(side, sym) ==
    QTY_PER_LEG * Cardinality({i \in DOMAIN orders :
                                 orders[i].side = side /\ orders[i].symbol = sym})

\* C22: in live mode the orders accepted by the gateway stay consistent
\* with the tracked position.  Stated for one tick, from which the claim
\* for every tick boundary follows by induction from the flat start: for
\* each option symbol, the quantity tracked at the start of the tick plus
\* the BUYs minus the SELLs of the tick is the quantity tracked at its end,
\* so that no leg is sold that is not held and none is bought while the
\* tracked position stays FLAT.
C22_OrdersMatchTrackedPosition ==
    (pc = "sleep" /\ LIVE_MODE)
        => \A sym \in OptionSymbols :
             TrackedQty(pre, sym) + OrderedQty("BUY", sym) - OrderedQty("SELL", sym)
               = TrackedQty(Position, sym)

\* the step adds the PnL of the tracked legs to realized PnL
IsBooking ==
    /\ pc' \in {"ks_log", "ro_exit_log", "fx_log"}
    /\ pc' # pc

\* C21: each leg-set opened by an ENTRY or a ROLL re-entry contributes to
\* realized PnL at most once, also after ticks aborted by a failed order,
\* log append or re-entry: no exit realizes the PnL of tracked legs whose
\* PnL has been realized before.
C21_LegSetBookedOnce ==
    [][IsBooking => ~legs_booked]_vars

====
